---- MODULE Spec2Model ----
(***************************************************************************)
(* A model of sim.c, a trace-driven simulator of a fully associative       *)
(* cache with a write-through or write-back policy.                         *)
(*                                                                         *)
(* C strings are sequences of one-character strings without the closing    *)
(* NUL.  A NULL pointer is the record [null |-> TRUE]; a pointer to a       *)
(* struct is the struct's record with null |-> FALSE.                       *)
(***************************************************************************)
EXTENDS Integers, Sequences, FiniteSets, TLC

VARIABLES
    pc,          \* "start" before createCache has been called, "run" after,
                 \* "done" / "aborted" / "crashed" once main has returned
    cache,       \* the Cache returned by createCache (struct Cache_ or NULL)
    ret,         \* value returned by the last readFromCache / writeToCache
    outcome,     \* which return of the last access was taken
    lastOp,      \* the mode of the last record: "R" or "W" for the function
                 \* called, another character for a bad record ("-": none)
    lastAddr,    \* the address string passed to the last access
    nAccess,     \* history: accesses that passed input validation
    nInstalled,  \* history: accesses that stored a new block
    nWriteHits,  \* history: writeToCache calls that found their tag
    installed,   \* history: the addresses whose access stored a new block
    firstSeen,   \* history: the addresses accessed, each once, in the order
                 \* of their first access
    eofSeen,     \* history: main has read a line that starts with '#'
    printed,     \* the four counters main printed at the end (<< >>: none)
    upc,         \* the utility function applied: "in" (none yet), "htoi",
                 \* "parsed" (parseMemoryAddress); "idle" in a cache run
    text,        \* the string handed to the utility function
    dec,         \* the unsigned int htoi returned
    fields       \* the tag, index and offset strings of parseMemoryAddress

utilVars == << upc, text, dec, fields >>

vars == << pc, cache, ret, outcome, lastOp, lastAddr,
           nAccess, nInstalled, nWriteHits, installed, firstSeen,
           eofSeen, printed, upc, text, dec, fields >>

----------------------------------------------------------------------------
(* Bounds of the model *)

MaxAccesses == 4
MaxCacheSize == 2
MaxBlockSize == 2
MaxStrLen == 3

(* Bit-field widths of sim.h, as documented at formatBinary *)
TAG == 18
INDEX == 12
OFFSET == 2

RECURSIVE Pow2(_)
Pow2(n) == IF n = 0 THEN 1 ELSE 2 * Pow2(n - 1)

\* unsigned int is 32 bits wide.  A value is kept as its two 16-bit halves,
\* [hi |-> h, lo |-> l] standing for h * 2^16 + l, and its arithmetic is
\* arithmetic modulo 2^32.
HALF == Pow2(16)

u32(n) == [hi |-> (n \div HALF) % HALF, lo |-> n % HALF]

\* n * m modulo 2^32, for a small multiplier m
mulU32(n, m) ==
    [hi |-> (n.hi * m + ((n.lo * m) \div HALF)) % HALF,
     lo |-> (n.lo * m) % HALF]

\* n + d modulo 2^32, for a small addend d
addU32(n, d) ==
    [hi |-> (n.hi + ((n.lo + d) \div HALF)) % HALF,
     lo |-> (n.lo + d) % HALF]

\* bit i (0 = least significant) of n
bitU32(n, i) ==
    IF i < 16 THEN (n.lo \div Pow2(i)) % 2 ELSE (n.hi \div Pow2(i - 16)) % 2

\* The address strings the trace supplies
Addresses ==
    { <<"0","x","0","0","0","0","0","0","0","0">>,
      <<"0","x","0","0","0","0","0","0","0","4">>,
      <<"0","x","0","0","0","0","4","0","0","0">>,
      <<"0","x","F","F","F","F","F","F","F","F">> }

----------------------------------------------------------------------------
(* 3. Utility functions *)

DecDigit == ("0" :> 0) @@ ("1" :> 1) @@ ("2" :> 2) @@ ("3" :> 3) @@ ("4" :> 4)
            @@ ("5" :> 5) @@ ("6" :> 6) @@ ("7" :> 7) @@ ("8" :> 8) @@ ("9" :> 9)

\* tolower(c) - 'a' for the letters a..f
HexLetter == ("a" :> 0) @@ ("b" :> 1) @@ ("c" :> 2) @@ ("d" :> 3) @@ ("e" :> 4)
             @@ ("f" :> 5)

tolower(c) ==
    CASE c = "A" -> "a" [] c = "B" -> "b" [] c = "C" -> "c"
      [] c = "D" -> "d" [] c = "E" -> "e" [] c = "F" -> "f"
      [] c = "X" -> "x" [] OTHER -> c

\* one pass of htoi's while loop over the character c
htoiStep(result, c) ==
    LET r == mulU32(result, 16) IN
    IF c \in DOMAIN DecDigit
      THEN addU32(r, DecDigit[c])
      ELSE IF tolower(c) \in DOMAIN HexLetter
             THEN addU32(r, HexLetter[tolower(c)] + 10)
             ELSE r

RECURSIVE htoiLoop(_, _, _)
htoiLoop(str, i, result) ==
    IF i > Len(str) THEN result
    ELSE htoiLoop(str, i + 1, htoiStep(result, str[i]))

htoi(str) ==
    LET i == IF Len(str) >= 2 /\ str[1] = "0" /\ str[2] = "x" THEN 3 ELSE 1
    IN  htoiLoop(str, i, u32(0))

\* bstring[32 - 1 - i] is '1' iff num == ((1 << i) | num), that is, iff bit i
\* of num is set; position k (counted from 1) holds bit 32 - k.  (1 << 31 is
\* taken as the bit pattern 0x80000000, which is what 32-bit builds produce.)
getBinary(num) ==
    [k \in 1..32 |-> IF bitU32(num, 32 - k) = 1 THEN "1" ELSE "0"]

\* formatBinary with the last loop reading bstring[i - 3]
formatBinary_offByOne(bstring) ==
    [k \in 1..(OFFSET + INDEX + TAG + 2) |->
        IF k <= TAG THEN bstring[k]
        ELSE IF k = TAG + 1 THEN " "
        ELSE IF k <= INDEX + TAG + 1 THEN bstring[k - 1]
        ELSE IF k = INDEX + TAG + 2 THEN " "
        ELSE bstring[k - 3]]

formatBinary(bstring) ==
    [k \in 1..(OFFSET + INDEX + TAG + 2) |->
        IF k <= TAG THEN bstring[k]
        ELSE IF k = TAG + 1 THEN " "
        ELSE IF k <= INDEX + TAG + 1 THEN bstring[k - 1]
        ELSE IF k = INDEX + TAG + 2 THEN " "
        ELSE bstring[k - 2]]

\* tagFrom with the copy running over the index field as well
tagFrom_withIndex(bformatted) == [k \in 1..(TAG + 1 + INDEX) |-> bformatted[k]]

\* the value of the binary digit string bin[k..], most significant first
RECURSIVE btoiFrom(_, _)
btoiFrom(bin, k) ==
    IF k > Len(bin) THEN 0
    ELSE (IF bin[k] = "1" THEN 1 ELSE 0) * Pow2(Len(bin) - k) + btoiFrom(bin, k + 1)

\* btoi returns 0 as soon as it meets a character other than '0' and '1'
btoi(bin) ==
    IF \E k \in 1..Len(bin) : bin[k] \notin {"0", "1"} THEN 0
    ELSE btoiFrom(bin, 1)

\* the tag readFromCache and writeToCache copy out of the formatted string
tagFrom(bformatted) == [k \in 1..TAG |-> bformatted[k]]

parseTag(address) == tagFrom(formatBinary(getBinary(htoi(address))))

\* the tag, index and offset strings parseMemoryAddress copies out of the
\* formatted string
fieldsFrom(bformatted) ==
    [ tag    |-> [k \in 1..TAG |-> bformatted[k]],
      index  |-> [k \in 1..INDEX |-> bformatted[TAG + 1 + k]],
      offset |-> [k \in 1..OFFSET |-> bformatted[INDEX + TAG + 2 + k]] ]

\* the tags of the trace's addresses
tagTable == [a \in Addresses |-> parseTag(a)]

----------------------------------------------------------------------------
(* 5. Cache functions *)

NULL == [null |-> TRUE]

numLines(c) == c.cache_size \div c.block_size

newCache(cache_size, block_size, write_policy) ==
    [ null |-> FALSE,
      hits |-> 0, misses |-> 0, reads |-> 0, writes |-> 0,
      write_policy |-> write_policy,
      cache_size |-> cache_size, block_size |-> block_size,
      blocks |-> [i \in 0..((cache_size \div block_size) - 1) |-> NULL] ]

\* createCache's input validation
validParams(cache_size, block_size, write_policy) ==
    ~ (cache_size <= 0 \/ block_size <= 0
        \/ (write_policy # 0 /\ write_policy # 1))

\* newBlock with the dirty flag left clear
newBlock_clean(tag, dirty) ==
    [null |-> FALSE, valid |-> 1, dirty |-> 0, tag |-> tag]

newBlock(tag, dirty) ==
    [null |-> FALSE, valid |-> 1, dirty |-> dirty, tag |-> tag]

blockMatches(block, tag) ==
    ~block.null /\ block.valid = 1 /\ block.tag = tag

\* findBlock with the scan started at slot 1
findBlock_skipFirst(c, tag) ==
    LET M == {i \in 1..(numLines(c) - 1) : blockMatches(c.blocks[i], tag)}
    IN  IF M = {} THEN -1 ELSE CHOOSE i \in M : \A j \in M : i <= j

\* the first loop: the lowest slot holding the tag, or -1
findBlock(c, tag) ==
    LET M == {i \in 0..(numLines(c) - 1) : blockMatches(c.blocks[i], tag)}
    IN  IF M = {} THEN -1 ELSE CHOOSE i \in M : \A j \in M : i <= j

\* findEmpty with slot 0 taken as the victim when no slot is NULL
findEmpty_evictFirst(c) ==
    LET E == {i \in 0..(numLines(c) - 1) : c.blocks[i].null}
    IN  IF E = {} THEN (IF numLines(c) > 0 THEN 0 ELSE -1)
        ELSE CHOOSE i \in E : \A j \in E : i <= j

\* findEmpty with the scan run from the last slot down
findEmpty_fromLast(c) ==
    LET E == {i \in 0..(numLines(c) - 1) : c.blocks[i].null}
    IN  IF E = {} THEN -1 ELSE CHOOSE i \in E : \A j \in E : i >= j

\* the second loop: the lowest slot that is NULL, or -1
findEmpty(c) ==
    LET E == {i \in 0..(numLines(c) - 1) : c.blocks[i].null}
    IN  IF E = {} THEN -1 ELSE CHOOSE i \in E : \A j \in E : i <= j

\* readHit with hits-- for hits++
readHit_decrement(c, i) == [c EXCEPT !.hits = @ - 1]

\* readHit that counts a memory read as well
readHit_countsRead(c, i) == [c EXCEPT !.hits = @ + 1, !.reads = @ + 1]

readHit(c, i) == [c EXCEPT !.hits = @ + 1]

\* writeHit with the test of the write policy inverted
writeHit_policyInverted(c, i) ==
    [c EXCEPT !.writes = IF c.write_policy = 1 THEN @ + 1 ELSE @,
              !.blocks[i].dirty = 1,
              !.hits = @ + 1]

\* writeHit without hits++
writeHit_noHit(c, i) ==
    [c EXCEPT !.writes = IF c.write_policy = 0 THEN @ + 1 ELSE @,
              !.blocks[i].dirty = 1]

writeHit(c, i) ==
    [c EXCEPT !.writes = IF c.write_policy = 0 THEN @ + 1 ELSE @,
              !.blocks[i].dirty = 1,
              !.hits = @ + 1]

\* storeBlock without reads++
storeBlock_noRead(c, i, block) ==
    [c EXCEPT !.blocks[i] = block,
              !.misses = @ + 1]

storeBlock(c, i, block) ==
    [c EXCEPT !.blocks[i] = block,
              !.misses = @ + 1,
              !.reads = @ + 1]

createCache ==
    /\ pc = "start"
    /\ \E cache_size \in -1..MaxCacheSize, block_size \in -1..MaxBlockSize,
          write_policy \in -1..2 :
         cache' = IF validParams(cache_size, block_size, write_policy)
                    THEN newCache(cache_size, block_size, write_policy)
                    ELSE NULL
    /\ pc' = "run"
    /\ UNCHANGED << ret, outcome, lastOp, lastAddr,
                    nAccess, nInstalled, nWriteHits, installed, firstSeen,
                    eofSeen, printed >>
    /\ UNCHANGED utilVars

\* an access whose cache argument is NULL returns 0 at once
accessInvalid(op, address) ==
    /\ cache.null
    /\ ret' = 0
    /\ outcome' = "Invalid"
    /\ lastOp' = op
    /\ lastAddr' = address
    /\ UNCHANGED << pc, cache, nAccess, nInstalled, nWriteHits, installed, firstSeen,
                    eofSeen, printed >>
    /\ UNCHANGED utilVars

\* the body of readFromCache past input validation: the cache afterwards,
\* the value returned and the return statement taken
readResult(c, tag) ==
    LET h == findBlock(c, tag)
        e == findEmpty(c)
    IN  IF h # -1
          THEN [cache |-> readHit(c, h), ret |-> 1, outcome |-> "Hit"]
          ELSE IF e # -1
            THEN [cache |-> storeBlock(c, e, newBlock(tag, 0)),
                  ret |-> 1, outcome |-> "MissInstalled"]
            ELSE [cache |-> c, ret |-> 0, outcome |-> "MissDropped"]

\* the body of writeToCache past input validation
writeResult(c, tag) ==
    LET h == findBlock(c, tag)
        e == findEmpty(c)
    IN  IF h # -1
          THEN [cache |-> writeHit(c, h), ret |-> 1, outcome |-> "Hit"]
          ELSE IF e # -1
            THEN [cache |-> storeBlock(c, e, newBlock(tag, 1)),
                  ret |-> 1, outcome |-> "MissInstalled"]
            ELSE [cache |-> c, ret |-> 0, outcome |-> "MissDropped"]

accessValid(op, address) ==
    /\ ~cache.null
    /\ nAccess < MaxAccesses
    /\ LET tag == tagTable[address]
           r == IF op = "R" THEN readResult(cache, tag)
                            ELSE writeResult(cache, tag)
       IN  /\ cache' = r.cache
           /\ ret' = r.ret
           /\ outcome' = r.outcome
           /\ nWriteHits' = IF op = "W" /\ r.outcome = "Hit"
                              THEN nWriteHits + 1 ELSE nWriteHits
           /\ nInstalled' = IF r.outcome = "MissInstalled"
                              THEN nInstalled + 1 ELSE nInstalled
           /\ installed' = IF r.outcome = "MissInstalled"
                             THEN installed \cup {address} ELSE installed
           /\ firstSeen' = IF \E k \in 1..Len(firstSeen) : firstSeen[k] = address
                             THEN firstSeen ELSE Append(firstSeen, address)
    /\ nAccess' = nAccess + 1
    /\ lastOp' = op
    /\ lastAddr' = address
    /\ UNCHANGED << pc, eofSeen, printed >>
    /\ UNCHANGED utilVars

readFromCache ==
    /\ pc = "run"
    /\ \E address \in Addresses :
         \/ accessInvalid("R", address)
         \/ accessValid("R", address)

writeToCache ==
    /\ pc = "run"
    /\ \E address \in Addresses :
         \/ accessInvalid("W", address)
         \/ accessValid("W", address)

\* operation codes of a record other than 'R' and 'W'
BadModes == {"r", "X"}

\* main reads a line whose first character is '#': the line is passed over
mainMarker ==
    /\ pc = "run"
    /\ eofSeen' = TRUE
    /\ UNCHANGED << pc, cache, ret, outcome, lastOp, lastAddr,
                    nAccess, nInstalled, nWriteHits, installed, firstSeen, printed >>
    /\ UNCHANGED utilVars

\* mainError that goes on to the next record
mainError_continue ==
    /\ pc = "run"
    /\ \E mode \in BadModes : lastOp' = mode
    /\ UNCHANGED << pc, cache, ret, outcome, lastAddr, nAccess, nInstalled,
                    nWriteHits, installed, firstSeen, eofSeen, printed >>
    /\ UNCHANGED utilVars

\* main reads a record whose mode is neither 'R' nor 'W': it prints ERROR,
\* destroys the cache and returns 0
mainError ==
    /\ pc = "run"
    /\ \E mode \in BadModes : lastOp' = mode
    /\ cache' = NULL
    /\ pc' = "aborted"
    /\ UNCHANGED << ret, outcome, lastAddr, nAccess, nInstalled, nWriteHits,
                    installed, firstSeen, eofSeen, printed >>
    /\ UNCHANGED utilVars

\* fgets returns NULL: main prints the four counters, destroys the cache and
\* returns 1.  With a NULL cache the printf reads through a null pointer.
mainFinish ==
    /\ pc = "run"
    /\ IF cache.null
         THEN pc' = "crashed" /\ UNCHANGED << cache, printed >>
         ELSE /\ printed' = << cache.hits, cache.misses,
                               cache.reads, cache.writes >>
              /\ cache' = NULL
              /\ pc' = "done"
    /\ UNCHANGED << ret, outcome, lastOp, lastAddr,
                    nAccess, nInstalled, nWriteHits, installed, firstSeen, eofSeen >>
    /\ UNCHANGED utilVars

----------------------------------------------------------------------------
(* The utility functions on their own *)

\* characters of the short strings: digits, letters, the 'x' of the prefix
\* and a character htoi does not recognize
Alphabet == {"0", "1", "x", "F", "a", "G"}

ShortStrings == UNION {[1..n -> Alphabet] : n \in 0..MaxStrLen}

Bytes == { <<"0","0">>, <<"F","F">>, <<"8","0">>, <<"1","a">> }

\* full-width addresses "0x" followed by eight hexadecimal digits
FullAddresses ==
    { <<"0","x">> \o b1 \o b2 \o b3 \o b4 : b1 \in Bytes, b2 \in Bytes,
                                             b3 \in Bytes, b4 \in Bytes }

NoFields == [tag |-> << >>, index |-> << >>, offset |-> << >>]

callHtoi ==
    /\ upc = "in"
    /\ dec' = htoi(text)
    /\ upc' = "htoi"
    /\ UNCHANGED << pc, cache, ret, outcome, lastOp, lastAddr, nAccess,
                    nInstalled, nWriteHits, installed, firstSeen, eofSeen, printed,
                    text, fields >>

parseMemoryAddress ==
    /\ upc = "in"
    /\ dec' = htoi(text)
    /\ fields' = fieldsFrom(formatBinary(getBinary(htoi(text))))
    /\ upc' = "parsed"
    /\ UNCHANGED << pc, cache, ret, outcome, lastOp, lastAddr, nAccess,
                    nInstalled, nWriteHits, installed, firstSeen, eofSeen, printed, text >>

Init ==
    /\ upc = "idle"
    /\ text = << >>
    /\ dec = u32(0)
    /\ fields = NoFields
    /\ pc = "start"
    /\ cache = NULL
    /\ ret = 0
    /\ outcome = "None"
    /\ lastOp = "-"
    /\ lastAddr = << >>
    /\ nAccess = 0
    /\ nInstalled = 0
    /\ nWriteHits = 0
    /\ installed = {}
    /\ firstSeen = << >>
    /\ eofSeen = FALSE
    /\ printed = << >>

Next ==
    \/ createCache
    \/ readFromCache
    \/ writeToCache
    \/ mainMarker
    \/ mainError
    \/ mainFinish

Spec == Init /\ [][Next]_vars

UtilInit ==
    /\ upc = "in"
    /\ text \in ShortStrings \cup FullAddresses
    /\ dec = u32(0)
    /\ fields = NoFields
    /\ pc = "start"
    /\ cache = NULL
    /\ ret = 0
    /\ outcome = "None"
    /\ lastOp = "-"
    /\ lastAddr = << >>
    /\ nAccess = 0
    /\ nInstalled = 0
    /\ nWriteHits = 0
    /\ installed = {}
    /\ firstSeen = << >>
    /\ eofSeen = FALSE
    /\ printed = << >>

UtilNext ==
    \/ callHtoi
    \/ parseMemoryAddress

UtilSpec == UtilInit /\ [][UtilNext]_vars

TypeOK ==
    /\ pc \in {"start", "run", "done", "aborted", "crashed"}
    /\ ret \in {0, 1}
    /\ outcome \in {"None", "Invalid", "Hit", "MissInstalled", "MissDropped"}
    /\ lastOp \in {"-", "R", "W"} \cup BadModes
    /\ eofSeen \in BOOLEAN
    /\ upc \in {"idle", "in", "htoi", "parsed"}
    /\ nAccess \in 0..MaxAccesses
    /\ installed \subseteq Addresses
----------------------------------------------------------------------------
(* Vocabulary of the properties *)

Slots == DOMAIN cache.blocks

Occupied(i) == ~cache.blocks[i].null

Full == \A i \in Slots : Occupied(i)

\* the high-order TAG bits of the address, as a number
TopBits(address) ==
    LET n == htoi(address)
    IN  n.hi * Pow2(TAG - 16) + (n.lo \div Pow2(32 - TAG))

\* the high-order TAG bits of the trace's addresses
topBitsTable == [a \in Addresses |-> TopBits(a)]

\* some slot of c holds the block of the address's memory line
ResidentIn(c, address) ==
    \E i \in DOMAIN c.blocks :
       ~c.blocks[i].null /\ btoi(c.blocks[i].tag) = topBitsTable[address]

\* an earlier access installed a block of the address's memory line
InstalledBefore(address) ==
    \E a \in installed : topBitsTable[a] = topBitsTable[address]

\* this step is an access that passed input validation
AccessStep == nAccess' = nAccess + 1

Created == pc = "run" /\ ~cache.null

----------------------------------------------------------------------------
(* C1: hits + misses equals the number of accesses processed, an access   *)
(* that misses while every slot is occupied included.                      *)
C1_HitsPlusMissesIsAccesses ==
    Created => cache.hits + cache.misses = nAccess

C4_WriteThroughWrites ==
    /\ []((Created /\ cache.write_policy = 0) => cache.writes = nWriteHits)
    /\ [][ (AccessStep /\ cache.write_policy = 0)
             => cache'.writes = cache.writes
                  + (IF lastOp' = "W" /\ outcome' = "Hit" THEN 1 ELSE 0) ]_vars

\* W a, W a on a two-line write-through cache: reads = 1, writes = 1
C4_Witness ==
    /\ Created
    /\ cache.write_policy = 0
    /\ numLines(cache) = 2
    /\ nAccess = 2
    /\ lastOp = "W" /\ outcome = "Hit"
    /\ cache.reads = 1 /\ cache.writes = 1

(* C5: under write-back, memoryWrites is 0 in every reachable state.      *)
C5_WriteBackNoWrites ==
    (Created /\ cache.write_policy = 1) => cache.writes = 0

\* a write-back run in which writes have hit
C5_Witness ==
    /\ Created
    /\ cache.write_policy = 1
    /\ nWriteHits >= 2
    /\ cache.writes = 0

(* C6: no two occupied slots hold the same tag.                            *)
C6_NoDuplicateTags ==
    Created =>
      \A i, j \in Slots :
         (i # j /\ Occupied(i) /\ Occupied(j))
            => cache.blocks[i].tag # cache.blocks[j].tag

\* two slots are occupied and their tags have been accessed again
C6_Witness ==
    /\ Created
    /\ Cardinality({i \in Slots : Occupied(i)}) = 2
    /\ cache.hits >= 2

C8_CountersMonotone ==
    /\ [](Created => /\ cache.hits >= 0 /\ cache.misses >= 0
                     /\ cache.reads >= 0 /\ cache.writes >= 0)
    /\ [][ (Created /\ ~cache'.null)
             => /\ cache'.hits - cache.hits \in {0, 1}
                /\ cache'.misses - cache.misses \in {0, 1}
                /\ cache'.reads - cache.reads \in {0, 1}
                /\ cache'.writes - cache.writes \in {0, 1} ]_vars

\* all four counters have grown
C8_Witness ==
    /\ Created
    /\ cache.hits >= 2 /\ cache.misses >= 2
    /\ cache.reads >= 2 /\ cache.writes >= 1

C10_ConstructionRejectsInvalid ==
    Created =>
      /\ cache.cache_size > 0
      /\ cache.block_size > 0
      /\ cache.cache_size % cache.block_size = 0
      /\ cache.write_policy \in {0, 1}

(* C11: a record whose operation code is neither 'R' nor 'W' ends the run: *)
(* the record is not applied, no later record is applied, the cache is      *)
(* destroyed and the final statistics are not printed.                      *)
C11_BadRecordAborts ==
    /\ [](lastOp \in BadModes
            => (pc = "aborted" /\ printed = << >> /\ cache.null))
    /\ [][ (lastOp' \in BadModes /\ lastOp \notin BadModes)
             => (nAccess' = nAccess /\ ret' = ret /\ outcome' = outcome) ]_vars
    /\ [][ (lastOp \in BadModes) => UNCHANGED vars ]_vars

\* a bad record met after accesses were applied
C11_Witness ==
    /\ pc = "aborted"
    /\ lastOp \in BadModes
    /\ nAccess >= 2
    /\ nInstalled >= 1

(* C12: the end-of-trace marker changes no counter and no slot, and no     *)
(* record that follows the marker is applied to the cache.                  *)
C12_MarkerEndsProcessing ==
    /\ [][ (eofSeen' /\ ~eofSeen) => cache' = cache ]_vars
    /\ [][ eofSeen => ~AccessStep ]_vars

C14_DirtyBookkeeping ==
    /\ [][ (AccessStep /\ lastOp' = "W" /\ outcome' = "Hit")
             => \A i \in Slots :
                  (Occupied(i)
                     /\ btoi(cache.blocks[i].tag) = topBitsTable[lastAddr'])
                    => cache'.blocks[i].dirty = 1 ]_vars
    /\ [][ (AccessStep /\ outcome' = "MissInstalled")
             => \E i \in Slots :
                  /\ ~Occupied(i)
                  /\ ~cache'.blocks[i].null
                  /\ cache'.blocks[i].valid = 1
                  /\ Len(cache'.blocks[i].tag) = TAG
                  /\ btoi(cache'.blocks[i].tag) = topBitsTable[lastAddr']
                  /\ cache'.blocks[i].dirty
                       = (IF lastOp' = "W" THEN 1 ELSE 0) ]_vars

\* a write-through cache holding a clean and a dirty block after a write hit
C14_Witness ==
    /\ Created
    /\ cache.write_policy = 0
    /\ lastOp = "W" /\ outcome = "Hit"
    /\ \E i, j \in Slots : /\ Occupied(i) /\ Occupied(j)
                           /\ cache.blocks[i].dirty = 0
                           /\ cache.blocks[j].dirty = 1

(* C15: a read Hit changes nothing but hits, which grows by one: the       *)
(* other counters and every slot's valid, tag and dirty stay as they were.  *)
C15_ReadHitFrame ==
    [][ (AccessStep /\ lastOp' = "R" /\ outcome' = "Hit")
          => (cache' = [cache EXCEPT !.hits = @ + 1]) ]_vars

\* a read hit on a dirty block of a write-back cache
C15_Witness ==
    /\ Created
    /\ cache.write_policy = 1
    /\ lastOp = "R" /\ outcome = "Hit"
    /\ cache.hits = 1
    /\ \E i \in Slots : /\ Occupied(i)
                        /\ cache.blocks[i].dirty = 1
                        /\ btoi(cache.blocks[i].tag) = topBitsTable[lastAddr]

\* the results of a Read and of a Write of the address on the cache c agree
\* but for memoryWrites and for the dirty flag of the block of the address
SameButDirtyAndWrites(c, a) ==
    LET r == readResult(c, tagTable[a])
        w == writeResult(c, tagTable[a])
    IN  /\ r.outcome = w.outcome
        /\ r.ret = w.ret
        /\ r.cache.hits = w.cache.hits
        /\ r.cache.misses = w.cache.misses
        /\ r.cache.reads = w.cache.reads
        /\ DOMAIN r.cache.blocks = DOMAIN w.cache.blocks
        /\ \A i \in DOMAIN r.cache.blocks :
             /\ r.cache.blocks[i].null = w.cache.blocks[i].null
             /\ ~r.cache.blocks[i].null
                  => /\ r.cache.blocks[i].tag = w.cache.blocks[i].tag
                     /\ r.cache.blocks[i].valid = w.cache.blocks[i].valid
                     /\ (r.cache.blocks[i].dirty # w.cache.blocks[i].dirty
                           => btoi(r.cache.blocks[i].tag) = topBitsTable[a])

(* C16: from the same cache state and address a Read and a Write give the  *)
(* same outcome, the same hits, misses and memoryReads and the same slot    *)
(* occupancy and tags; they differ at most in the dirty flag of the         *)
(* accessed block and in memoryWrites.                                      *)
C16_ReadWriteSameTraversal ==
    Created => \A a \in Addresses : SameButDirtyAndWrites(cache, a)

\* a state from which a Read and a Write of one address hit and differ, and
\* from which those of another address are both dropped
C16_Witness ==
    /\ Created
    /\ Full
    /\ nAccess >= 1
    /\ \E a \in Addresses :
          /\ readResult(cache, tagTable[a]).outcome = "Hit"
          /\ readResult(cache, tagTable[a]).cache
               # writeResult(cache, tagTable[a]).cache
    /\ \E b \in Addresses :
          writeResult(cache, tagTable[b]).outcome = "MissDropped"

\* the characters htoi gives a value to
IsHexDigit(c) == c \in DOMAIN DecDigit \/ tolower(c) \in DOMAIN HexLetter

\* the string without a leading "0x" and without its unrecognized characters
Recognized(s) ==
    LET body == IF Len(s) >= 2 /\ s[1] = "0" /\ s[2] = "x"
                  THEN SubSeq(s, 3, Len(s)) ELSE s
    IN  SelectSeq(body, IsHexDigit)

(* C17: decoding splits the 32-bit, most-significant-bit-first binary      *)
(* representation into tag (top TAG bits), index (next INDEX bits) and      *)
(* offset (low OFFSET bits), TAG + INDEX + OFFSET = 32, so that tag, index  *)
(* and offset put together again are the address.                           *)
C17_FieldsPartitionAddress ==
    upc = "parsed" =>
      LET cat == fields.tag \o fields.index \o fields.offset IN
      /\ TAG + INDEX + OFFSET = 32
      /\ Len(fields.tag) = TAG
      /\ Len(fields.index) = INDEX
      /\ Len(fields.offset) = OFFSET
      /\ btoi(fields.tag) = dec.hi * Pow2(TAG - 16) + (dec.lo \div Pow2(32 - TAG))
      /\ btoi(fields.index) = (dec.lo \div Pow2(OFFSET)) % Pow2(INDEX)
      /\ btoi(fields.offset) = dec.lo % Pow2(OFFSET)
      /\ \A k \in 1..32 : cat[k] \in {"0", "1"}
      /\ btoi(SubSeq(cat, 1, 16)) = dec.hi
      /\ btoi(SubSeq(cat, 17, 32)) = dec.lo

\* an address with bits set in all three fields, the top bit among them
C17_Witness ==
    /\ upc = "parsed"
    /\ dec.hi >= Pow2(15)
    /\ btoi(fields.index) > 0
    /\ btoi(fields.offset) > 0
    /\ btoi(fields.tag) # btoi(fields.index)

(* C18: htoi rejects nothing, drops a leading "0x" and skips unrecognized  *)
(* characters, so that its result is the value of the text with the         *)
(* unrecognized characters removed.                                         *)
C18_HtoiSkipsUnrecognized ==
    upc = "htoi" => dec = htoi(Recognized(text))

FirstAccess(t) ==
    LET K == {k \in 1..Len(firstSeen) : topBitsTable[firstSeen[k]] = t}
    IN  IF K = {} THEN 0 ELSE CHOOSE k \in K : \A j \in K : k <= j

====
